---- MODULE Spec2Model ----
(***************************************************************************)
(* Model of swift/cli/shard-info.py: collect_brokers fills the shared map  *)
(* name -> node -> broker, run walks the map and calls print_container for *)
(* every name with a root replica, print_container renders one container   *)
(* and recurses into its shards.                                           *)
(*                                                                         *)
(* Python objects are modelled as follows (Python 3 semantics).            *)
(*   dict              a sequence of [key, value] records in insertion     *)
(*                     order; assignment to an existing key keeps its slot *)
(*   defaultdict(dict) the same, with __getitem__ inserting an empty dict  *)
(*                     for a missing key                                   *)
(*   set (used_names)  a slot of heap; a frame holds the slot's index, so  *)
(*                     two frames can share one set object                 *)
(*   dict.items()      a view: the iterator raises RuntimeError when the   *)
(*                     dict changed size since the iteration began         *)
(*   stdout            out, a sequence of line records                     *)
(***************************************************************************)
EXTENDS Integers, Sequences, FiniteSets, TLC

\* ------------------------------------------------------------------ bounds
\* number of conf_paths handed to run
MaxConfs == 2
\* database files in one datadir
MaxFiles == 1
\* database files on all the devices together
MaxDbs == 2
\* the interpreter's limit on the depth of recursion (scaled down)
MaxDepth == 6

\* ----------------------------------------------------------- environment
\* c_ring.devs: the node ids of the container ring, in ring order.
Devs == <<1, 2>>

SR(name, lower, deleted) == [name |-> name, lower |-> lower, deleted |-> deleted]

R == "a/c"
S1 == ".s_a/c-1"
S2 == ".s_a/c-2"

\* What a container database found on disk can hold: account, container,
\* the answer of is_root_container(), info['delete_timestamp'], and the
\* answers of get_shard_ranges(include_deleted=True) (ranges) and of
\* get_shard_ranges(include_deleted=True, include_own=True,
\* exclude_others=True) (own).
DbContents ==
  { [account |-> "a", container |-> "c", root |-> TRUE, delete_timestamp |-> 0,
     ranges |-> <<SR(S1, "", TRUE), SR(S2, "m", FALSE)>>, own |-> <<>>],
    [account |-> "a", container |-> "c", root |-> FALSE, delete_timestamp |-> 0,
     ranges |-> <<SR(S1, "", FALSE)>>, own |-> <<>>],
    [account |-> ".s_a", container |-> "c-1", root |-> FALSE, delete_timestamp |-> 0,
     ranges |-> <<SR(S1, "", TRUE), SR(S2, "", TRUE), SR(R, "", FALSE),
                 SR(S2, "g", FALSE)>>,
     own |-> <<SR(S1, "", TRUE), SR(S1, "", FALSE)>>],
    [account |-> ".s_a", container |-> "c-2", root |-> FALSE, delete_timestamp |-> 7,
     ranges |-> <<SR(R, "", FALSE)>>, own |-> <<SR(S2, "m", FALSE)>>],
    [account |-> ".s_a", container |-> "c-1", root |-> TRUE, delete_timestamp |-> 0,
     ranges |-> <<>>, own |-> <<>>] }

\* ContainerBroker(object_file): a handle on the database at object_file.
ContainerBroker(object_file, db) ==
  [db_file |-> object_file, account |-> db.account, container |-> db.container,
   root |-> db.root, delete_timestamp |-> db.delete_timestamp,
   ranges |-> db.ranges, own |-> db.own]

VARIABLES
  pc,                  \* position of run / collect_brokers
  err,                 \* the exception that ended the run, "" if none
  conf_idx,            \* index in conf_paths of the current conf_path
  dev_idx,             \* index in c_ring.devs of the next node to look at
  dirs,                \* collect_brokers' list of (datadir, node id)
  rr,                  \* roundrobin_datadirs: files left per dirs entry, position
  name2nodes2brokers,  \* the aggregation map
  run_items,           \* the names run's loop iterates over
  run_size,            \* size of the map when the loop started
  run_idx,             \* index in run_items of the next name
  heap,                \* the set objects created for used_names
  stack,               \* the active print_container calls
  out,                 \* the lines printed
  calls,               \* history: every print_container call so far
  found,               \* history: every (conf, name, node, broker) discovered
  skipped              \* history: the nodes this collect_brokers call passed over

vars == <<pc, err, conf_idx, dev_idx, dirs, rr, name2nodes2brokers,
          run_items, run_size, run_idx, heap, stack, out, calls, found, skipped>>

collectVars == <<conf_idx, dev_idx, dirs, rr, found, skipped>>
loopVars == <<run_items, run_size, run_idx>>
renderVars == <<heap, stack, out, calls>>

\* ------------------------------------------------------------ dict helpers
RECURSIVE IndexOf(_, _, _)
IndexOf(d, key, i) ==
  IF i > Len(d) THEN 0
  ELSE IF d[i].key = key THEN i
  ELSE IndexOf(d, key, i + 1)

HasKey(d, key) == IndexOf(d, key, 1) # 0

\* d[key] on a plain dict whose key is present
Get(d, key) == d[IndexOf(d, key, 1)].value

\* d[key] = value
SetItem(d, key, value) ==
  IF HasKey(d, key)
    THEN [d EXCEPT ![IndexOf(d, key, 1)].value = value]
    ELSE Append(d, [key |-> key, value |-> value])

\* defaultdict(dict).__getitem__: a missing key is inserted with dict()
DefaultGetMap(d, key) ==
  IF HasKey(d, key) THEN d ELSE Append(d, [key |-> key, value |-> <<>>])

\* ------------------------------------------------------------------ source
broker_key(broker) == broker.account \o "/" \o broker.container

container_type(broker) == IF broker.root THEN "ROOT" ELSE "SHARD"

\* mutant of print_db: the type is compared with the default 'ROOT', not
\* with the caller's expect_type
print_db_default_type(call, node, broker, expect_type, indent_level) ==
  LET actual_type == container_type(broker)
  IN  <<[call |-> call, indent |-> indent_level, kind |-> "db",
         db_file |-> broker.db_file, node |-> node]>>
      \o (IF actual_type # "ROOT"
            THEN <<[call |-> call, indent |-> indent_level, kind |-> "error",
                    expected |-> "ROOT", actual |-> actual_type]>>
            ELSE <<>>)

\* print_db: the file line, then the ERROR line when the types disagree
print_db(call, node, broker, expect_type, indent_level) ==
  LET actual_type == container_type(broker)
  IN  <<[call |-> call, indent |-> indent_level, kind |-> "db",
         db_file |-> broker.db_file, node |-> node]>>
      \o (IF actual_type # expect_type
            THEN <<[call |-> call, indent |-> indent_level, kind |-> "error",
                    expected |-> expect_type, actual |-> actual_type]>>
            ELSE <<>>)

\* print_broker_info: deleted_at is ' - ' for a zero delete_timestamp
print_broker_info(call, node, broker, indent_level) ==
  <<[call |-> call, indent |-> indent_level, kind |-> "info", node |-> node,
     deleted_at |-> IF broker.delete_timestamp # 0 THEN "isoformat" ELSE " - "]>>

print_sharding_info(call, node, broker, indent_level) ==
  <<[call |-> call, indent |-> indent_level, kind |-> "sharding", node |-> node]>>

print_shard_range(call, node, sr, indent_level) ==
  [call |-> call, indent |-> indent_level, kind |-> "sr", node |-> node,
   lower |-> sr.lower, deleted |-> sr.deleted, name |-> sr.name]

\* mutant of sort_by_deleted: the list is left in the order it came in
sort_by_deleted_unsorted(shard_ranges) == shard_ranges

\* list.sort(key=lambda x: x.deleted): stable, False before True
sort_by_deleted(shard_ranges) ==
  SelectSeq(shard_ranges, LAMBDA x : ~x.deleted)
    \o SelectSeq(shard_ranges, LAMBDA x : x.deleted)

print_shard_range_info(call, node, shard_ranges, indent_level) ==
  LET sorted == sort_by_deleted(shard_ranges)
  IN  [i \in 1..Len(sorted) |-> print_shard_range(call, node, sorted[i], indent_level)]

\* broker.get_shard_ranges(include_deleted=True, ...)
get_shard_ranges(broker, include_own, exclude_others) ==
  IF include_own /\ exclude_others THEN broker.own ELSE broker.ranges

\* for node, broker in node2broker.items(): print...(node, broker, ...):
\* printed[i] is what the call for the i-th item prints
RECURSIVE ForItems(_, _)
ForItems(printed, i) ==
  IF i > Len(printed) THEN <<>>
  ELSE printed[i] \o ForItems(printed, i + 1)

\* mutant of shard_names_of: only the first replica's shard ranges are read
shard_names_of_first(node2broker) ==
  IF node2broker = <<>> THEN {}
  ELSE { node2broker[1].value.ranges[j].name :
           j \in 1..Len(node2broker[1].value.ranges) }

\* print_container, lines 128-133: the names added to shard_names
shard_names_of(node2broker) ==
  UNION { { get_shard_ranges(node2broker[i].value, FALSE, FALSE)[j].name :
              j \in 1..Len(get_shard_ranges(node2broker[i].value, FALSE, FALSE)) } :
          i \in 1..Len(node2broker) }

\* mutant of used_names_or_set: every call works on its own copy of the set
used_names_copy(used_names, h) ==
  [heap |-> Append(h, IF used_names = {} THEN {}
                      ELSE h[CHOOSE r \in used_names : TRUE]),
   ref |-> Len(h) + 1]

\* used_names = used_names or set(): the argument is None ({}) or a
\* reference ({ref}); None and an empty set are both falsy.
used_names_or_set(used_names, h) ==
  IF used_names = {} \/ h[CHOOSE r \in used_names : TRUE] = {}
    THEN [heap |-> Append(h, {}), ref |-> Len(h) + 1]
    ELSE [heap |-> h, ref |-> CHOOSE r \in used_names : TRUE]

\* mutant of already_listed: the visited check never succeeds
already_listed_never(name, used) == FALSE

\* name in used_names
already_listed(name, used) == name \in used

Header(call, indent_level, title) ==
  <<[call |-> call, indent |-> indent_level, kind |-> "hdr", title |-> title]>>

\* print_container up to its loop over shard_names (or to its early return):
\* the map, heap, output, call history and stack it leaves behind.
print_container(name, m, expect_type, indent_level, used_names, h, o, cs, stk) ==
  LET u == used_names_or_set(used_names, h)
      m1 == DefaultGetMap(m, name)
      node2broker == Get(m1, name)
      call == Len(cs) + 1
      parent == IF stk = <<>> THEN 0 ELSE stk[Len(stk)].call
      seen == already_listed(name, u.heap[u.ref])
      entry == [top |-> IF parent = 0 THEN call ELSE cs[parent].top,
                parent |-> parent, name |-> name, expect_type |-> expect_type,
                indent_level |-> indent_level, used |-> u.ref,
                had_entry |-> HasKey(m, name), detailed |-> ~seen]
      name_line == <<[call |-> call, indent |-> indent_level, kind |-> "name",
                      name |-> name]>>
      il == indent_level + 1
      item(i) == node2broker[i]
      items == 1..Len(node2broker)
      details ==
        Header(call, indent_level, "DB files:")
        \o ForItems([i \in items |->
                       print_db(call, item(i).key, item(i).value, expect_type, il)], 1)
        \o Header(call, indent_level, "Info:")
        \o ForItems([i \in items |->
                       print_broker_info(call, item(i).key, item(i).value, il)], 1)
        \o Header(call, indent_level, "Sharding info:")
        \o ForItems([i \in items |->
                       print_sharding_info(call, item(i).key, item(i).value, il)], 1)
        \o Header(call, indent_level, "Own shard range:")
        \o ForItems([i \in items |->
                       print_shard_range_info(
                         call, item(i).key,
                         get_shard_ranges(item(i).value, TRUE, TRUE), il)], 1)
        \o Header(call, indent_level, "Shard ranges:")
        \o ForItems([i \in items |->
                       print_shard_range_info(
                         call, item(i).key,
                         get_shard_ranges(item(i).value, FALSE, FALSE), il)], 1)
        \o Header(call, indent_level, "Shards:")
  IN  IF seen
        THEN [map |-> m1, heap |-> u.heap,
              out |-> o \o name_line
                        \o <<[call |-> call, indent |-> indent_level,
                              kind |-> "already"]>>,
              calls |-> Append(cs, entry), stack |-> stk]
        ELSE [map |-> m1,
              heap |-> [u.heap EXCEPT ![u.ref] = @ \cup {name}],
              out |-> o \o name_line \o details,
              calls |-> Append(cs, entry),
              stack |-> Append(stk, [call |-> call, name |-> name,
                                     indent_level |-> indent_level,
                                     used_names |-> u.ref,
                                     shard_names |-> shard_names_of(node2broker)])]

Init ==
  /\ pc = "run_collect"
  /\ err = ""
  /\ conf_idx = 1
  /\ dev_idx = 1
  /\ dirs = <<>>
  /\ rr = [left |-> <<>>, pos |-> 1]
  /\ name2nodes2brokers = <<>>
  /\ run_items = <<>>
  /\ run_size = 0
  /\ run_idx = 1
  /\ heap = <<>>
  /\ stack = <<>>
  /\ out = <<>>
  /\ calls = <<>>
  /\ found = <<>>
  /\ skipped = {}


\* ----------------------------------------------------------------- actions
\* helpers of the bound on the number of database files
RECURSIVE SumLeft(_, _)
SumLeft(left, i) == IF i > Len(left) THEN 0 ELSE left[i] + SumLeft(left, i + 1)

Min(a, b) == IF a < b THEN a ELSE b

\* roundrobin_datadirs: the dirs entry that yields next, visiting the entries
\* in turn from position pos and passing over the exhausted ones; 0 when all
\* are exhausted.
RECURSIVE NextDir(_, _, _)
NextDir(left, pos, tried) ==
  IF tried >= Len(left) THEN 0
  ELSE LET i == ((pos - 1 + tried) % Len(left)) + 1
       IN  IF left[i] > 0 THEN i ELSE NextDir(left, pos, tried + 1)

\* run, lines 145-146: the next conf_path is handed to collect_brokers,
\* which reads the conf and the ring and starts with dirs = [].
RunCollect ==
  /\ pc = "run_collect"
  /\ pc' = "scan"
  /\ UNCHANGED <<err, collectVars, name2nodes2brokers, loopVars, renderVars>>

\* mutant of dirs_append: the datadir is appended without the isdir test
dirs_append_always(isdir) == TRUE

\* whether a datadir is appended to dirs, given os.path.isdir's answer
dirs_append(isdir) == isdir

\* collect_brokers, lines 44-47: one node of c_ring.devs. os.path.isdir
\* answers isdir; a datadir that exists holds nfiles database files.
ScanNode ==
  /\ pc = "scan"
  /\ \E isdir \in BOOLEAN :
     \E nfiles \in 0..Min(MaxFiles, MaxDbs - (Len(found) + SumLeft([i \in 1..Len(dirs) |-> dirs[i].nfiles], 1))) :
       LET node == Devs[dev_idx]
           datadir == <<conf_idx, node>>
       IN  /\ (~isdir => nfiles = 0)
           /\ dirs' = IF dirs_append(isdir)
                        THEN Append(dirs, [datadir |-> datadir, node_id |-> node,
                                           isdir |-> isdir, nfiles |-> nfiles])
                        ELSE dirs
           /\ skipped' = IF isdir THEN skipped ELSE skipped \cup {node}
           /\ IF dev_idx < Len(Devs)
                THEN /\ dev_idx' = dev_idx + 1
                     /\ pc' = "scan"
                     /\ rr' = rr
                ELSE /\ dev_idx' = dev_idx
                     /\ pc' = "walk"
                     /\ rr' = [left |-> [i \in 1..Len(dirs') |-> dirs'[i].nfiles],
                               pos |-> 1]
  /\ UNCHANGED <<err, conf_idx, name2nodes2brokers, found, loopVars, renderVars>>

\* mutant of insert_broker: setdefault, the first handle of a pair is kept
insert_broker_first(names2nodes, node_id, broker) ==
  LET key == broker_key(broker)
      m1 == DefaultGetMap(names2nodes, key)
  IN  IF HasKey(Get(m1, key), node_id) THEN m1
      ELSE SetItem(m1, key, SetItem(Get(m1, key), node_id, broker))

\* names2nodes[broker_key(broker)][node_id] = broker
insert_broker(names2nodes, node_id, broker) ==
  LET key == broker_key(broker)
      m1 == DefaultGetMap(names2nodes, key)
  IN  SetItem(m1, key, SetItem(Get(m1, key), node_id, broker))

\* collect_brokers, lines 48-50: roundrobin_datadirs is asked for the next
\* database file; the file is opened and entered in the map. Listing a
\* datadir that does not exist raises OSError.
WalkYield ==
  /\ pc = "walk"
  /\ \/ NextDir(rr.left, rr.pos, 0) # 0
     \/ \E i \in 1..Len(dirs) : ~dirs[i].isdir
  /\ IF \E i \in 1..Len(dirs) : ~dirs[i].isdir
       THEN /\ pc' = "raised"
            /\ err' = "OSError"
            /\ UNCHANGED <<rr, name2nodes2brokers, found>>
       ELSE LET i == NextDir(rr.left, rr.pos, 0)
                d == dirs[i]
                object_file == <<d.datadir[1], d.datadir[2],
                                 d.nfiles - rr.left[i] + 1>>
            IN  /\ rr' = [left |-> [rr.left EXCEPT ![i] = @ - 1],
                          pos |-> (i % Len(dirs)) + 1]
                /\ \E db \in DbContents :
                     LET broker == ContainerBroker(object_file, db)
                     IN  /\ name2nodes2brokers' =
                              insert_broker(name2nodes2brokers, d.node_id, broker)
                         /\ found' = Append(found, [conf |-> conf_idx,
                                                    name |-> broker_key(broker),
                                                    node |-> d.node_id,
                                                    broker |-> broker])
                /\ UNCHANGED <<pc, err>>
  /\ UNCHANGED <<conf_idx, dev_idx, dirs, skipped, loopVars, renderVars>>

\* collect_brokers returns; run goes on to the next conf_path or, after the
\* last one, starts to iterate name2nodes2brokers.items() (line 148), a view
\* of the dict.
WalkEnd ==
  /\ pc = "walk"
  /\ NextDir(rr.left, rr.pos, 0) = 0
  /\ \A i \in 1..Len(dirs) : dirs[i].isdir
  /\ dev_idx' = 1
  /\ dirs' = <<>>
  /\ rr' = [left |-> <<>>, pos |-> 1]
  /\ skipped' = {}
  /\ IF conf_idx < MaxConfs
       THEN /\ conf_idx' = conf_idx + 1
            /\ pc' = "run_collect"
            /\ UNCHANGED loopVars
       ELSE /\ conf_idx' = conf_idx
            /\ pc' = "run_next"
            /\ run_items' = [i \in 1..Len(name2nodes2brokers) |->
                               name2nodes2brokers[i].key]
            /\ run_size' = Len(name2nodes2brokers)
            /\ run_idx' = 1
  /\ UNCHANGED <<err, found, name2nodes2brokers, renderVars>>

\* run, lines 149-151
expect_root(node2broker) ==
  \E i \in 1..Len(node2broker) : node2broker[i].value.root

\* the dict iterator's check before it yields the next item
changed_size == Len(name2nodes2brokers) # run_size

\* run, line 148: the dict changed size during the iteration
RunRaise ==
  /\ pc = "run_next"
  /\ changed_size
  /\ pc' = "raised"
  /\ err' = "RuntimeError"
  /\ UNCHANGED <<collectVars, name2nodes2brokers, loopVars, renderVars>>

\* run, line 148: the iteration is exhausted
RunDone ==
  /\ pc = "run_next"
  /\ ~changed_size
  /\ run_idx > Len(run_items)
  /\ pc' = "done"
  /\ UNCHANGED <<err, collectVars, name2nodes2brokers, loopVars, renderVars>>

\* run, lines 148-152: a name none of whose replicas is a root
RunSkip ==
  /\ pc = "run_next"
  /\ ~changed_size
  /\ run_idx <= Len(run_items)
  /\ ~expect_root(Get(name2nodes2brokers, run_items[run_idx]))
  /\ run_idx' = run_idx + 1
  /\ UNCHANGED <<pc, err, collectVars, name2nodes2brokers, run_items, run_size,
                 renderVars>>

\* run, lines 148-153: print_container(name, name2nodes2brokers)
RunTop ==
  /\ pc = "run_next"
  /\ ~changed_size
  /\ run_idx <= Len(run_items)
  /\ expect_root(Get(name2nodes2brokers, run_items[run_idx]))
  /\ LET r == print_container(run_items[run_idx], name2nodes2brokers, "ROOT", 0,
                              {}, heap, out, calls, stack)
     IN  /\ name2nodes2brokers' = r.map
         /\ heap' = r.heap
         /\ out' = r.out
         /\ calls' = r.calls
         /\ stack' = r.stack
  /\ run_idx' = run_idx + 1
  /\ pc' = "render"
  /\ UNCHANGED <<err, collectVars, run_items, run_size>>

\* print_container, lines 137-139: the call for the next name of shard_names
\* (a set: any order). The interpreter bounds the depth of the recursion.
Recurse ==
  /\ pc = "render"
  /\ stack # <<>>
  /\ \E sr_name \in stack[Len(stack)].shard_names :
       LET f == stack[Len(stack)]
           stk == [stack EXCEPT ![Len(stack)].shard_names = @ \ {sr_name}]
           r == print_container(sr_name, name2nodes2brokers, "SHARD",
                                f.indent_level + 1, {f.used_names}, heap, out,
                                calls, stk)
       IN  IF Len(stack) >= MaxDepth
             THEN /\ pc' = "raised"
                  /\ err' = "RecursionError"
                  /\ UNCHANGED <<name2nodes2brokers, renderVars>>
             ELSE /\ name2nodes2brokers' = r.map
                  /\ heap' = r.heap
                  /\ out' = r.out
                  /\ calls' = r.calls
                  /\ stack' = r.stack
                  /\ UNCHANGED <<pc, err>>
  /\ UNCHANGED <<collectVars, loopVars>>

\* print_container, line 140: the loop over shard_names is over
Return ==
  /\ pc = "render"
  /\ stack # <<>>
  /\ stack[Len(stack)].shard_names = {}
  /\ out' = Append(out, [call |-> stack[Len(stack)].call,
                         indent |-> 0, kind |-> "end"])
  /\ stack' = SubSeq(stack, 1, Len(stack) - 1)
  /\ pc' = IF Len(stack) = 1 THEN "run_next" ELSE "render"
  /\ UNCHANGED <<err, collectVars, name2nodes2brokers, loopVars, heap, calls>>

Next ==
  \/ RunCollect
  \/ ScanNode
  \/ WalkYield
  \/ WalkEnd
  \/ RunRaise
  \/ RunDone
  \/ RunSkip
  \/ RunTop
  \/ Recurse
  \/ Return

Spec == Init /\ [][Next]_vars

\* run is one sequential program: it takes its next step whenever it has one
FairSpec == Spec /\ WF_vars(Next)

\* ------------------------------------------------------------- properties
LinesOf(c) == SelectSeq(out, LAMBDA l : l.call = c)

Kinds(s) == [i \in 1..Len(s) |-> s[i].kind]

Active == { stack[i].call : i \in 1..Len(stack) }

Kids(c) == { j \in 1..Len(calls) : calls[j].parent = c }

Replicas(name) == Get(name2nodes2brokers, name)

\* C1: within one top-level print_container invocation the detail sections
\* of an identity are printed at most once; every later call on the identity
\* prints only its 'Name:' line and the '(Details already listed)' marker.
C1_DetailsOnce ==
  \A j \in 1..Len(calls) :
    LET lines == LinesOf(j)
        hdrs == SelectSeq(lines, LAMBDA l : l.kind = "hdr")
    IN  IF \E i \in 1..(j - 1) :
             calls[i].top = calls[j].top /\ calls[i].name = calls[j].name
          THEN Kinds(lines) = <<"name", "already">>
          ELSE \A a, b \in 1..Len(hdrs) :
                 hdrs[a].title = hdrs[b].title => a = b

\* a shard reached a second time from another branch of the same root:
\* first below a sibling, then from the sibling's parent
C1_Witness ==
  \E i, j \in 1..Len(calls) :
    /\ i < j
    /\ calls[i].top = calls[j].top
    /\ calls[i].name = calls[j].name
    /\ calls[i].detailed
    /\ calls[i].parent # 0
    /\ calls[calls[i].parent].parent = calls[j].parent
    /\ calls[j].parent # 0
    /\ j \notin Active

EmptySections == <<"name", "hdr", "hdr", "hdr", "hdr", "hdr", "hdr">>

\* C2: a child shard name with no entry in the map is still recursed into
\* and rendered as 'Name: X' with six empty sections, and the run raises
\* no error.
C2_MissingShardRenders ==
  \A c \in 1..Len(calls) :
    (calls[c].parent # 0 /\ ~calls[c].had_entry)
      => /\ Kinds(LinesOf(c)) = IF c \in Active THEN EmptySections
                                ELSE Append(EmptySections, "end")
         /\ pc # "raised"

\* C3: while rendering (from run's loop on, at any depth of print_container)
\* the aggregation map does not change.
C3_ReadOnlyWhileRendering ==
  [][(pc \in {"run_next", "render"})
       => (name2nodes2brokers' = name2nodes2brokers)]_vars

\* every name the walk can meet: the map's identities and the names of the
\* shard ranges their replicas hold
AllNames ==
  { name2nodes2brokers[i].key : i \in 1..Len(name2nodes2brokers) }
    \cup UNION { UNION { { name2nodes2brokers[i].value[k].value.ranges[j].name :
                             j \in 1..Len(name2nodes2brokers[i].value[k].value.ranges) } :
                         k \in 1..Len(name2nodes2brokers[i].value) } :
                 i \in 1..Len(name2nodes2brokers) }

RECURSIVE Pending(_)
Pending(i) ==
  IF i > Len(stack) THEN 0
  ELSE Cardinality(stack[i].shard_names) + Pending(i + 1)

\* what is left of a top-level call: the names not yet visited weigh more
\* than any frame and pending name a visit can add
Rank ==
  IF stack = <<>> THEN 0
  ELSE Cardinality(AllNames \ heap[stack[1].used_names])
         * (Cardinality(AllNames) + 2)
       + Pending(1) + Len(stack)

\* C4: every top-level print_container call terminates, self-cycles and
\* longer cycles included: a call in progress can always take a step, every
\* step lowers Rank (a natural number), the recursion never reaches the
\* interpreter's depth limit, and a repeated visit of an identity makes no
\* recursive call.
C4_Terminates ==
  /\ [](pc = "render" => ENABLED (Recurse \/ Return))
  /\ [][(pc = "render") => (Rank' < Rank)]_vars
  /\ [](err # "RecursionError")
  /\ [](\A c \in 1..Len(calls) : ~calls[c].detailed => Kids(c) = {})

\* C4, as a property of behaviours under FairSpec: a top-level call that has
\* started returns
C4_TopLevelCallReturns == (stack # <<>>) ~> (stack = <<>>)

\* a shard that lists itself and its root was rendered and its walk is over
C4_Witness ==
  /\ stack = <<>>
  /\ \E j \in 1..Len(calls) :
       /\ calls[j].parent # 0
       /\ ~calls[j].detailed
       /\ calls[calls[j].parent].name = calls[j].name
  /\ \E j \in 1..Len(calls) :
       /\ calls[j].parent # 0
       /\ ~calls[j].detailed
       /\ calls[calls[j].parent].name # calls[j].name
       /\ calls[calls[j].parent].parent # 0
       /\ calls[calls[calls[j].parent].parent].name = calls[j].name

\* C5: when run is over, every identity of the map with a root replica has
\* had exactly one top-level call (depth 0, expecting ROOT, a fresh visited
\* set), and no other identity has had one.
C5_TopLevelPerRoot ==
  pc \in {"done", "raised"} =>
    \A i \in 1..Len(name2nodes2brokers) :
      LET name == name2nodes2brokers[i].key
          node2broker == name2nodes2brokers[i].value
          tops == { c \in 1..Len(calls) :
                      calls[c].parent = 0 /\ calls[c].name = name }
      IN  IF \E k \in 1..Len(node2broker) : node2broker[k].value.root
            THEN /\ Cardinality(tops) = 1
                 /\ \A c \in tops :
                      /\ calls[c].indent_level = 0
                      /\ calls[c].expect_type = "ROOT"
                      /\ \A b \in 1..(c - 1) : calls[b].used # calls[c].used
            ELSE tops = {}

\* the names of the shard ranges any replica of name holds
UnionOfShardNames(name) ==
  UNION { { Replicas(name)[i].value.ranges[j].name :
              j \in 1..Len(Replicas(name)[i].value.ranges) } :
          i \in 1..Len(Replicas(name)) }

\* C6: the names recursed into from a rendered identity are the union over
\* its replicas of their shard range names, each once, expecting SHARD, one
\* level deeper.
C6_RecursesIntoUnion ==
  \A c \in 1..Len(calls) :
    calls[c].detailed =>
      /\ \A j \in Kids(c) :
           /\ calls[j].expect_type = "SHARD"
           /\ calls[j].indent_level = calls[c].indent_level + 1
           /\ calls[j].name \in UnionOfShardNames(calls[c].name)
      /\ \A j, k \in Kids(c) : calls[j].name = calls[k].name => j = k
      /\ c \notin Active =>
           { calls[j].name : j \in Kids(c) } = UnionOfShardNames(calls[c].name)

\* a rendered identity with two replicas, one of which alone knows a shard
C6_Witness ==
  \E c \in 1..Len(calls) :
    /\ calls[c].detailed
    /\ c \notin Active
    /\ Len(Replicas(calls[c].name)) = 2
    /\ \E n \in UnionOfShardNames(calls[c].name) :
       \E i \in 1..2 :
         \A j \in 1..Len(Replicas(calls[c].name)[i].value.ranges) :
           Replicas(calls[c].name)[i].value.ranges[j].name # n

Flagged(i) == i < Len(out) /\ out[i + 1].kind = "error"

TypeOf(i) ==
  IF Get(Replicas(calls[out[i].call].name), out[i].node).root
    THEN "ROOT" ELSE "SHARD"

\* C7: a DB-file line is followed by an ERROR line naming the expected and
\* the actual type exactly when the replica's type differs from the type the
\* caller expects; ERROR lines appear nowhere else.
C7_ErrorIffMismatch ==
  \A i \in 1..Len(out) :
    /\ out[i].kind = "db" =>
         /\ Get(Replicas(calls[out[i].call].name), out[i].node).db_file
              = out[i].db_file
         /\ Flagged(i) <=> TypeOf(i) # calls[out[i].call].expect_type
         /\ Flagged(i) =>
              /\ out[i + 1].expected = calls[out[i].call].expect_type
              /\ out[i + 1].actual = TypeOf(i)
    /\ out[i].kind = "error" => (i > 1 /\ out[i - 1].kind = "db")

\* two replicas of one identity, one with the ERROR line and one without
C7_Witness ==
  \E i, j \in 1..Len(out) :
    /\ out[i].kind = "db"
    /\ out[j].kind = "db"
    /\ out[i].call = out[j].call
    /\ out[i].node # out[j].node
    /\ Flagged(i)
    /\ ~Flagged(j)

NextHdr(h) ==
  CHOOSE k \in (h + 1)..Len(out) :
    /\ out[k].kind = "hdr"
    /\ \A m \in (h + 1)..(k - 1) : out[m].kind # "hdr"

\* the shard range lines printed for node among the lines seg of a section
Rendered(seg, node) ==
  LET mine == SelectSeq(seg, LAMBDA l : l.node = node)
  IN  [i \in 1..Len(mine) |-> SR(mine[i].name, mine[i].lower, mine[i].deleted)]

Count(s, x) == Cardinality({ i \in 1..Len(s) : s[i] = x })

Permutation(a, b) ==
  /\ Len(a) = Len(b)
  /\ \A i \in 1..Len(a) : Count(a, a[i]) = Count(b, a[i])

NotDeletedFirst(s) ==
  \A i, j \in 1..Len(s) : (i < j) => ~(s[i].deleted /\ ~s[j].deleted)

\* what the replica's handle answers for the section under the header at h
Queried(h, broker) ==
  IF out[h].title = "Own shard range:" THEN broker.own ELSE broker.ranges

SrHeaders ==
  { h \in 1..Len(out) :
      /\ out[h].kind = "hdr"
      /\ out[h].title \in {"Own shard range:", "Shard ranges:"} }

\* C8: the shard ranges printed for a replica are a permutation of the list
\* its handle returned, with every non-deleted range before every deleted one.
C8_SortedPermutation ==
  \A h \in SrHeaders :
    LET seg == SubSeq(out, h + 1, NextHdr(h) - 1)
        node2broker == Replicas(calls[out[h].call].name)
    IN  /\ \A m \in 1..Len(seg) : seg[m].kind = "sr"
        /\ \A i \in 1..Len(node2broker) :
             LET printed == Rendered(seg, node2broker[i].key)
             IN  /\ Permutation(Queried(h, node2broker[i].value), printed)
                 /\ NotDeletedFirst(printed)

\* a replica whose handle returns a deleted range before a live one
C8_Witness ==
  \E h \in SrHeaders :
    \E i \in 1..Len(Replicas(calls[out[h].call].name)) :
      LET q == Queried(h, Replicas(calls[out[h].call].name)[i].value)
      IN  \E a, b \in 1..Len(q) : a < b /\ q[a].deleted /\ ~q[b].deleted

Hits(name, node) ==
  { i \in 1..Len(found) : found[i].name = name /\ found[i].node = node }

Last(S) == CHOOSE i \in S : \A j \in S : j <= i

DistinctKeys(d) == \A i, j \in 1..Len(d) : d[i].key = d[j].key => i = j

\* C9: each (identity, node) pair of the map holds one handle, the one of
\* the pair's latest discovery; pairs never discovered have no entry.
C9_LastWriterWins ==
  /\ DistinctKeys(name2nodes2brokers)
  /\ \A i \in 1..Len(name2nodes2brokers) :
       /\ DistinctKeys(name2nodes2brokers[i].value)
       /\ \A k \in 1..Len(name2nodes2brokers[i].value) :
            Hits(name2nodes2brokers[i].key,
                 name2nodes2brokers[i].value[k].key) # {}
  /\ \A f \in 1..Len(found) :
       /\ HasKey(name2nodes2brokers, found[f].name)
       /\ HasKey(Replicas(found[f].name), found[f].node)
       /\ Get(Replicas(found[f].name), found[f].node)
            = found[Last(Hits(found[f].name, found[f].node))].broker

\* a pair found again by a later configuration source, with another handle
C9_Witness ==
  \E i, j \in 1..Len(found) :
    /\ i < j
    /\ found[i].name = found[j].name
    /\ found[i].node = found[j].node
    /\ found[i].conf < found[j].conf
    /\ found[i].broker.root # found[j].broker.root

FoundHere(node) ==
  { i \in 1..Len(found) : found[i].conf = conf_idx /\ found[i].node = node }

\* C10: in a collect_brokers call a node whose datadir does not exist gets
\* no entry in dirs and no handle, no error is raised, and every datadir that
\* exists is scanned to its end.
C10_MissingDirSkipped ==
  /\ err # "OSError"
  /\ pc \in {"scan", "walk"} =>
       /\ \A n \in skipped :
            /\ \A i \in 1..Len(dirs) : dirs[i].node_id # n
            /\ FoundHere(n) = {}
       /\ \A i \in 1..Len(dirs) : dirs[i].isdir
       /\ (pc = "walk" /\ NextDir(rr.left, rr.pos, 0) = 0) =>
            \A i \in 1..Len(dirs) :
              Cardinality(FoundHere(dirs[i].node_id)) = dirs[i].nfiles

\* one node passed over, the other node's database entered in the map
C10_Witness ==
  /\ pc = "walk"
  /\ NextDir(rr.left, rr.pos, 0) = 0
  /\ skipped # {}
  /\ \E i \in 1..Len(dirs) : FoundHere(dirs[i].node_id) # {}

====
